---------------------------- MODULE Spec2Model ----------------------------
(***************************************************************************)
(* Model of the tide / weather dashboard front-end.                        *)
(*                                                                         *)
(*   src/src/App.tsx       the dashboard (stations, fishing forecast)      *)
(*   src/unnamed/part_001  the tide page with normalizeDate / fetchTides   *)
(*   src/unnamed/part_002  the tide page that fetches when it is mounted   *)
(*                                                                         *)
(* JavaScript strings are sequences of one-character strings, so that      *)
(* trim, split, the date regular expression, Number() and padStart are     *)
(* computed character by character.  JavaScript numbers are exact          *)
(* rationals [num, den]; NaN has denominator 0.                            *)
(***************************************************************************)
EXTENDS Integers, Sequences, FiniteSets, TLC

VARIABLES
    clock,        \* new Date(): [year, month (0-based, as getMonth), day]
    input,        \* argument handed to normalizeDate
    output,       \* Returned(value of normalizeDate), NotCalled before the call
    time,         \* argument handed to toHourFraction
    hourFraction, \* Returned(value of toHourFraction), NotCalled before it
    forecast,     \* App.tsx useState: FishingForecastResponse | null
    view,         \* what one render of App.tsx derived from forecast
    variant,      \* which App component is mounted: "forecast" | "tides" |
                  \* "tidesOnLoad"
    mounted,      \* whether the first render is committed
    effect,       \* the mount effect of the page: "pending" once the first
                  \* render is committed, "due" once an event handler has
                  \* run before it (it is then flushed before the re-render),
                  \* "none" otherwise
    stations,     \* App.tsx useState: Station[] | null
    stationCode,  \* useState("")
    date,         \* useState("")
    data,         \* part_001 useState: TideResponse | null
    error,        \* useState: string | null
    loading,      \* useState(false)
    inflight,     \* requests sent and not yet answered
    urlQuery,     \* window.location.search of the tide page
    url           \* the query of the latest fetch of forecast or tide data

vars == <<clock, input, output, time, hourFraction, forecast, view, variant,
          mounted, stations, stationCode, date, data, error, loading,
          inflight, urlQuery, url, effect>>

dateVars == <<input, output>>
timeVars == <<time, hourFraction>>
viewVars == <<view>>
appVars == <<variant, mounted, stations, stationCode, date, data, error,
             loading, inflight, urlQuery, url, effect>>

-----------------------------------------------------------------------------
(* Values of the JavaScript runtime *)

\* Values of different kinds are never compared: null and undefined are
\* records, like numbers, responses and the wrapped results below.
Null == [null |-> TRUE]
Undefined == [undefined |-> TRUE]

\* The harness around a pure function: no call yet, or the value returned
NotCalled == [called |-> FALSE]
Returned(v) == [called |-> TRUE, value |-> v]

DigitChars == <<"0", "1", "2", "3", "4", "5", "6", "7", "8", "9">>
Digits == {DigitChars[i] : i \in 1..10}
DigitVal(c) == (CHOOSE i \in 1..10 : DigitChars[i] = c) - 1

\* String.prototype.trim strips white space from both ends
WhiteSpace == {" ", "\t"}

RECURSIVE TrimStart(_)
TrimStart(s) ==
    IF s # << >> /\ Head(s) \in WhiteSpace THEN TrimStart(Tail(s)) ELSE s

RECURSIVE TrimEnd(_)
TrimEnd(s) ==
    IF s # << >> /\ s[Len(s)] \in WhiteSpace
    THEN TrimEnd(SubSeq(s, 1, Len(s) - 1))
    ELSE s

Trim(s) == TrimEnd(TrimStart(s))

\* String.prototype.toUpperCase on the letters the station codes use
UpperChar(c) ==
    CASE c = "d" -> "D"
      [] c = "a" -> "A"
      [] OTHER -> c

ToUpperCase(s) == [i \in 1..Len(s) |-> UpperChar(s[i])]

\* String(n) for an integer n >= 0
RECURSIVE NatToString(_)
NatToString(n) ==
    IF n < 10
    THEN <<DigitChars[n + 1]>>
    ELSE NatToString(n \div 10) \o <<DigitChars[(n % 10) + 1]>>

\* A padStart that pads nothing: "2024-3-5" would stay unpadded
PadStart_None(s, n, c) == s

\* String.prototype.padStart(n, c)
RECURSIVE PadStart(_, _, _)
PadStart(s, n, c) == IF Len(s) >= n THEN s ELSE PadStart(<<c>> \o s, n, c)

\* Number(s) for a string of decimal digits
RECURSIVE DigitsToNat(_)
DigitsToNat(s) ==
    IF s = << >>
    THEN 0
    ELSE 10 * DigitsToNat(SubSeq(s, 1, Len(s) - 1)) + DigitVal(s[Len(s)])

AllDigits(s) == \A i \in 1..Len(s) : s[i] \in Digits

-----------------------------------------------------------------------------
(* part_001: todayJst and normalizeDate *)

todayJst ==
    LET yyyy == NatToString(clock.year)
        mm == PadStart(NatToString(clock.month + 1), 2, "0")
        dd == PadStart(NatToString(clock.day), 2, "0")
    IN  yyyy \o <<"-">> \o mm \o <<"-">> \o dd

\* A character class that also lets ':' through
DateSeparators_WithColon == {"-", "/", ".", ":"}

\* The character class [-/.] of the date pattern
DateSeparators == {"-", "/", "."}

\* s.match(/^(\d{4})[-/.](\d{1,2})[-/.](\d{1,2})$/): the capture groups
\* [g1, g2, g3] = m[1], m[2], m[3], or Null when the string does not match
MatchDate(s) ==
    LET ok(lm, ld) ==
            /\ Len(s) = 4 + 1 + lm + 1 + ld
            /\ AllDigits(SubSeq(s, 1, 4))
            /\ s[5] \in DateSeparators
            /\ AllDigits(SubSeq(s, 6, 5 + lm))
            /\ s[6 + lm] \in DateSeparators
            /\ AllDigits(SubSeq(s, 7 + lm, 6 + lm + ld))
        fits == {p \in (1..2) \X (1..2) : ok(p[1], p[2])}
    IN  IF fits = {}
        THEN Null
        ELSE LET p == CHOOSE q \in fits : TRUE
             IN  [g1 |-> SubSeq(s, 1, 4),
                  g2 |-> SubSeq(s, 6, 5 + p[1]),
                  g3 |-> SubSeq(s, 7 + p[1], 6 + p[1] + p[2])]

normalizeDate(in) ==
    LET s == Trim(in)
    IN  IF s = << >>
        THEN todayJst
        ELSE LET m == MatchDate(s)
             IN  IF m = Null
                 THEN s
                 ELSE LET yyyy == m.g1
                          mm == PadStart(NatToString(DigitsToNat(m.g2)), 2, "0")
                          dd == PadStart(NatToString(DigitsToNat(m.g3)), 2, "0")
                      IN  yyyy \o <<"-">> \o mm \o <<"-">> \o dd

-----------------------------------------------------------------------------
(* JavaScript numbers as exact rationals *)

Num(n) == [num |-> n, den |-> 1]
NaN == [num |-> 0, den |-> 0]

\* Number.isFinite
IsFinite(v) == v # Undefined /\ v # Null /\ v.den # 0

RatLess(a, b) == a.num * b.den < b.num * a.den
RatEq(a, b) == a.num * b.den = b.num * a.den
RatMin(a, b) == IF RatLess(b, a) THEN b ELSE a
RatMax(a, b) == IF RatLess(a, b) THEN b ELSE a
RECURSIVE GCD(_, _)
GCD(m, n) == IF n = 0 THEN m ELSE GCD(n, m % n)

\* The same number in lowest terms
Reduced(a) ==
    LET g == GCD(IF a.num < 0 THEN -a.num ELSE a.num, a.den)
    IN  IF g = 0 THEN a ELSE [num |-> a.num \div g, den |-> a.den \div g]

RatAdd(a, b) ==
    Reduced([num |-> a.num * b.den + b.num * a.den, den |-> a.den * b.den])
RatSub(a, b) ==
    Reduced([num |-> a.num * b.den - b.num * a.den, den |-> a.den * b.den])
RatMul(a, b) == Reduced([num |-> a.num * b.num, den |-> a.den * b.den])
RatDivInt(a, k) == Reduced([num |-> a.num, den |-> a.den * k])

\* Math.floor of a rational
Floor(a) ==
    IF a.num >= 0
    THEN a.num \div a.den
    ELSE -((-a.num + a.den - 1) \div a.den)

RECURSIVE Pow10(_)
Pow10(k) == IF k = 0 THEN 1 ELSE 10 * Pow10(k - 1)

IndexOf(s, c) ==
    IF \E i \in 1..Len(s) : s[i] = c
    THEN CHOOSE i \in 1..Len(s) : s[i] = c /\ \A j \in 1..(i - 1) : s[j] # c
    ELSE 0

\* Number(s) of a string (StringToNumber): white space is trimmed, the empty
\* string is 0, a signed decimal literal (digits, digits., digits.digits,
\* .digits) is its value, anything else is NaN.  Exponents, hexadecimal
\* literals and Infinity use letters the modelled inputs do not contain.
Number(str) ==
    LET t == Trim(str)
        signed == t # << >> /\ t[1] \in {"-", "+"}
        body == IF signed THEN Tail(t) ELSE t
        dot == IndexOf(body, ".")
        intPart == IF dot = 0 THEN body ELSE SubSeq(body, 1, dot - 1)
        fracPart == IF dot = 0 THEN << >> ELSE SubSeq(body, dot + 1, Len(body))
        literal == /\ AllDigits(intPart)
                   /\ AllDigits(fracPart)
                   /\ Len(intPart) + Len(fracPart) > 0
        magnitude == DigitsToNat(intPart \o fracPart)
    IN  IF t = << >>
        THEN Num(0)
        ELSE IF ~literal
             THEN NaN
             ELSE [num |-> IF signed /\ t[1] = "-" THEN -magnitude ELSE magnitude,
                   den |-> Pow10(Len(fracPart))]

\* String.prototype.split(sep) with a one-character separator
RECURSIVE Split(_, _)
Split(s, sep) ==
    LET i == IndexOf(s, sep)
    IN  IF i = 0
        THEN <<s>>
        ELSE <<SubSeq(s, 1, i - 1)>> \o Split(SubSeq(s, i + 1, Len(s)), sep)

-----------------------------------------------------------------------------
(* App.tsx: the time of a tide event *)

\* A clamp that lets the hour reach 24
toHourFraction_Hour24(t) ==
    LET parts == Split(t, ":")
        hStr == parts[1]
        mStr == IF Len(parts) >= 2 THEN parts[2] ELSE <<"0">>
        h == Number(hStr)
        m == Number(mStr)
        hour == IF IsFinite(h) THEN RatMin(Num(24), RatMax(Num(0), h)) ELSE Num(0)
        minute == IF IsFinite(m) THEN RatMin(Num(59), RatMax(Num(0), m)) ELSE Num(0)
    IN  RatAdd(hour, RatDivInt(minute, 60))

toHourFraction(t) ==
    LET parts == Split(t, ":")
        hStr == parts[1]
        mStr == IF Len(parts) >= 2 THEN parts[2] ELSE <<"0">>
        h == Number(hStr)
        m == Number(mStr)
        hour == IF IsFinite(h) THEN RatMin(Num(23), RatMax(Num(0), h)) ELSE Num(0)
        minute == IF IsFinite(m) THEN RatMin(Num(59), RatMax(Num(0), m)) ELSE Num(0)
    IN  RatAdd(hour, RatDivInt(minute, 60))

-----------------------------------------------------------------------------
(* App.tsx: what a render derives from the forecast *)

\* Opaque text (weather text, wind text, a message) and JavaScript truthiness
Str(text) == [str |-> text]
Truthy(v) == v # Undefined /\ v # Null /\ v # Str("")

\* array[i] with a JavaScript (0-based) index: undefined outside the array
Sample(array, i) ==
    IF i \in 0..(Len(array) - 1) THEN array[i + 1] ELSE Undefined

\* Array.prototype.filter(Boolean) on an array of objects and nulls
RECURSIVE FilterBoolean(_)
FilterBoolean(array) ==
    IF array = << >>
    THEN << >>
    ELSE IF Head(array) # Null /\ Head(array) # Undefined
         THEN <<Head(array)>> \o FilterBoolean(Tail(array))
         ELSE FilterBoolean(Tail(array))

\* A series that fills a gap with 0 instead of leaving it absent
chartData_GapAsZero(fc) ==
    IF fc = Null
    THEN << >>
    ELSE [i \in 1..24 |->
            LET h == i - 1
                height == Sample(fc.tide.hourly_cm, h)
            IN  [x |-> h,
                 label |-> PadStart(NatToString(h), 2, "0") \o <<":", "0", "0">>,
                 height |-> IF height # Null /\ height # Undefined
                            THEN height
                            ELSE Num(0)]]

chartData(fc) ==
    IF fc = Null
    THEN << >>
    ELSE [i \in 1..24 |->
            LET h == i - 1
                height == Sample(fc.tide.hourly_cm, h)
            IN  [x |-> h,
                 label |-> PadStart(NatToString(h), 2, "0") \o <<":", "0", "0">>,
                 height |-> IF height # Null THEN height ELSE Undefined]]

\* An interpolation that falls back to the next sample when the base one is absent
interpolateHeight_FallbackToNext(fc, x) ==
    LET baseHour == Floor(x)
        nextHour == IF baseHour + 1 < 23 THEN baseHour + 1 ELSE 23
        h0 == Sample(fc.tide.hourly_cm, baseHour)
        h1 == Sample(fc.tide.hourly_cm, nextHour)
        ratio == RatSub(x, Num(baseHour))
    IN  IF h0 = Null \/ h0 = Undefined
        THEN IF h1 = Null \/ h1 = Undefined THEN Null ELSE h1
        ELSE IF baseHour = 23 \/ h1 = Null \/ h1 = Undefined
             THEN h0
             ELSE RatAdd(h0, RatMul(RatSub(h1, h0), ratio))

interpolateHeight(fc, x) ==
    LET baseHour == Floor(x)
        nextHour == IF baseHour + 1 < 23 THEN baseHour + 1 ELSE 23
        h0 == Sample(fc.tide.hourly_cm, baseHour)
        h1 == Sample(fc.tide.hourly_cm, nextHour)
        ratio == RatSub(x, Num(baseHour))
    IN  IF h0 = Null \/ h0 = Undefined
        THEN Null
        ELSE IF baseHour = 23
             THEN h0
             ELSE IF h1 = Null \/ h1 = Undefined
                  THEN h0
                  ELSE RatAdd(h0, RatMul(RatSub(h1, h0), ratio))

\* The sort key of the comparator of tideEvents
toMinutes(t) ==
    LET parts == Split(t, ":")
        h == Number(parts[1])
        m == IF Len(parts) >= 2 THEN Number(parts[2]) ELSE Undefined
    IN  RatAdd(RatMul(IF IsFinite(h) THEN h ELSE Num(0), Num(60)),
               IF IsFinite(m) THEN m ELSE Num(0))

\* A comparator with its operands swapped: latest event first
compareEvents_Swapped(a, b) == RatSub(toMinutes(b.time), toMinutes(a.time))

\* The comparator: negative, zero or positive
compareEvents(a, b) == RatSub(toMinutes(a.time), toMinutes(b.time))

\* Array.prototype.sort with a comparator: a stable sort, here by insertion
RECURSIVE InsertSorted(_, _)
InsertSorted(sorted, e) ==
    IF sorted = << >>
    THEN <<e>>
    ELSE LET last == sorted[Len(sorted)]
         IN  IF compareEvents(last, e).num > 0
             THEN InsertSorted(SubSeq(sorted, 1, Len(sorted) - 1), e) \o <<last>>
             ELSE sorted \o <<e>>

RECURSIVE Sort(_)
Sort(array) ==
    IF array = << >>
    THEN << >>
    ELSE InsertSorted(Sort(SubSeq(array, 1, Len(array) - 1)), array[Len(array)])

tideEvents(fc) ==
    IF fc = Null
    THEN << >>
    ELSE LET highs == [i \in 1..Len(fc.tide.high) |->
                          [type |-> "high", time |-> fc.tide.high[i].time,
                           height |-> fc.tide.high[i].height_cm]]
             lows == [i \in 1..Len(fc.tide.low) |->
                         [type |-> "low", time |-> fc.tide.low[i].time,
                          height |-> fc.tide.low[i].height_cm]]
         IN  Sort(highs \o lows)

\* A marker dropped only when both bracketing samples are absent
markers_FromEitherSample(fc, events) ==
    FilterBoolean([i \in 1..Len(events) |->
        LET x == toHourFraction(events[i].time)
            y == interpolateHeight_FallbackToNext(fc, x)
        IN  IF y = Null THEN Null ELSE [x |-> x, height |-> y]])

\* events.map(...).filter(Boolean) of lowMarkers and highMarkers
markers(fc, events) ==
    FilterBoolean([i \in 1..Len(events) |->
        LET x == toHourFraction(events[i].time)
            y == interpolateHeight(fc, x)
        IN  IF y = Null THEN Null ELSE [x |-> x, height |-> y]])

lowMarkers(fc) == IF fc = Null THEN << >> ELSE markers(fc, fc.tide.low)

highMarkers(fc) == IF fc = Null THEN << >> ELSE markers(fc, fc.tide.high)

currentDay(fc) ==
    IF fc = Null
    THEN Undefined
    ELSE LET found == {i \in 1..Len(fc.weekly) : fc.weekly[i].date = fc.date}
         IN  IF found = {}
             THEN Undefined
             ELSE fc.weekly[CHOOSE i \in found : \A j \in found : i <= j]

\* The truthiness of the || chain
hasToday(fc) ==
    IF fc = Null
    THEN FALSE
    ELSE \/ Truthy(fc.today.weather.code)
         \/ Truthy(fc.today.wind_text)
         \/ Truthy(fc.today.wave_text)
         \/ \E i \in 1..Len(fc.today.pop) : fc.today.pop[i].value # Undefined

hasWeekly(fc) == IF fc = Null THEN FALSE ELSE Len(fc.weekly) > 0

\* a || "unknown"
OrUnknown(v) == IF Truthy(v) THEN v ELSE Str("unknown")

\* The elements rendered under the weather heading
weatherSection(fc) ==
    IF fc = Null
    THEN << >>
    ELSE IF hasToday(fc)
         THEN <<[el |-> "h4", text |-> Str("today")],
                [el |-> "p-weather", text |-> OrUnknown(fc.today.weather.text_ja)],
                [el |-> "p-wind", text |-> OrUnknown(fc.today.wind_text)],
                [el |-> "p-wave", text |-> OrUnknown(fc.today.wave_text)],
                [el |-> "p-pop", text |-> fc.today.pop]>>
         ELSE IF hasWeekly(fc)
              THEN <<[el |-> "h4", text |-> Str("weekly")]>>
                   \o (IF currentDay(fc) # Undefined
                       THEN <<[el |-> "p-weather",
                               text |-> OrUnknown(currentDay(fc).weather.text_ja)],
                              [el |-> "p-pop", text |-> currentDay(fc).pop],
                              [el |-> "p-temp",
                               text |-> <<currentDay(fc).temp_min,
                                          currentDay(fc).temp_max>>]>>
                       ELSE << >>)
              ELSE <<[el |-> "p-none", text |-> Str("no forecast for this date")]>>

\* One render of the result section
Rendered(fc) ==
    [called |-> TRUE,
     chartData |-> chartData(fc),
     tideEvents |-> tideEvents(fc),
     lowMarkers |-> lowMarkers(fc),
     highMarkers |-> highMarkers(fc),
     weather |-> weatherSection(fc)]

-----------------------------------------------------------------------------
(* The inputs of normalizeDate: white space, then year, separator, month,  *)
(* separator, day drawn from well-formed and ill-formed parts, then white  *)
(* space; and strings of other shapes.                                     *)

MaxPad == 1

Pads == {[i \in 1..n |-> c] : n \in 0..MaxPad, c \in WhiteSpace}

YearParts == {<<"2", "0", "2", "4">>, <<"0", "9", "9", "9">>,
              <<"2", "4">>, <<"2", "0", "2", "4", "5">>}
MonthParts == {<<"3">>, <<"0", "3">>, <<"1", "3">>, <<"0">>,
               <<"0", "0", "3">>, <<"x">>}
DayParts == {<<"5">>, <<"0", "5">>, <<"4", "0">>, <<"0", "0">>, <<"1", "a">>}
SeparatorChars == {"-", "/", ".", ":"}

OtherInputs ==
    {<< >>,
     <<"n", "o", "t", "-", "a", "-", "d", "a", "t", "e">>,
     <<"2", "0", "2", "4", "-", "0", "3">>,
     <<"2", "0", "2", "4", " ", "-", "3", "-", "5">>,
     <<"2", "0", "2", "4", "-", "3", "-", "5", "\t", "x">>}

DateInputs ==
    {l \o y \o <<s1>> \o m \o <<s2>> \o d \o r :
        l \in Pads, y \in YearParts, s1 \in SeparatorChars, m \in MonthParts,
        s2 \in SeparatorChars, d \in DayParts, r \in Pads}
    \cup {l \o o \o r : l \in Pads, o \in OtherInputs, r \in Pads}

\* The local calendar dates the clock may show (month as Date.getMonth)
Clock2024 == [year |-> 2024, month |-> 0, day |-> 9]
Clock2026 == [year |-> 2026, month |-> 11, day |-> 31]
Clocks == {Clock2024, Clock2026}

\* The idle values of the variables a specification does not use
IdleDate == input = << >> /\ output = NotCalled
IdleTime == time = << >> /\ hourFraction = NotCalled
IdleView == forecast = Null /\ view = NotCalled
IdleApp ==
    /\ variant = "none"
    /\ mounted = FALSE
    /\ stations = Null
    /\ stationCode = << >>
    /\ date = << >>
    /\ data = Null
    /\ error = Null
    /\ loading = FALSE
    /\ inflight = {}
    /\ urlQuery = Null
    /\ url = Null
    /\ effect = "none"

InitDate ==
    /\ clock \in Clocks
    /\ input \in DateInputs
    /\ output = NotCalled
    /\ IdleTime /\ IdleView /\ IdleApp

\* A call site hands its string to normalizeDate
CallNormalizeDate ==
    /\ output = NotCalled
    /\ output' = Returned(normalizeDate(input))
    /\ UNCHANGED <<clock, input, timeVars, forecast, viewVars, appVars>>

\* setDate(normalizeDate(...)) stores the result, and the stored date is
\* what the next call (fetchTides) hands to normalizeDate again
CallAgain ==
    /\ output # NotCalled
    /\ output.value # input
    /\ input' = output.value
    /\ output' = NotCalled
    /\ UNCHANGED <<clock, timeVars, forecast, viewVars, appVars>>

NextDate == CallNormalizeDate \/ CallAgain

SpecDate == InitDate /\ [][NextDate]_vars

-----------------------------------------------------------------------------
(* The inputs of toHourFraction: every string of at most MaxTimeLen        *)
(* characters over digits, the colon, the sign, the point and a letter.    *)

MaxTimeLen == 5

TimeAlphabet == {"2", "3", "9", ":", "-", ".", "x"}

TimeInputs ==
    UNION {[1..n -> TimeAlphabet] : n \in 0..MaxTimeLen}

InitTime ==
    /\ clock = Clock2024
    /\ time \in TimeInputs
    /\ hourFraction = NotCalled
    /\ IdleDate /\ IdleView /\ IdleApp

\* A marker's x position is computed from the event's time
CallToHourFraction ==
    /\ hourFraction = NotCalled
    /\ hourFraction' = Returned(toHourFraction(time))
    /\ UNCHANGED <<clock, time, dateVars, forecast, viewVars, appVars>>

NextTime == CallToHourFraction

SpecTime == InitTime /\ [][NextTime]_vars

-----------------------------------------------------------------------------
(* The forecasts a render may be given: 24 hourly samples with gaps (or an *)
(* array one sample short), high and low events with well-formed and       *)
(* ill-formed times, and the weather blocks with their optional fields.    *)

MaxEvents == 3
MaxWeekly == 2

\* Heights in cm for the hours 0..23; hours 6 and 7 are 120 and 160
BaseHourly ==
    <<-20, 0, 30, 60, 90, 100, 120, 160, 180, 170, 150, 120,
      90, 60, 40, 30, 50, 80, 110, 140, 150, 130, 100, 70>>

\* The hours whose sample is null: none, 6, 7, both, or the last one
GapSets == {{}, {6}, {7}, {6, 7}, {23}}

Hourlies ==
    {[i \in 1..24 |-> IF (i - 1) \in gaps THEN Null ELSE Num(BaseHourly[i])] :
        gaps \in GapSets}
    \cup {[i \in 1..23 |-> Num(BaseHourly[i])]}

T0630 == <<"0", "6", ":", "3", "0">>
T2345 == <<"2", "3", ":", "4", "5">>
T0300 == <<"0", "3", ":", "0", "0">>
T0900 == <<"0", "9", ":", "0", "0">>
TBad == <<"x", ":", "9", "9">>

EventTimes == {T0630, T2345, T0300, T0900, TBad}

\* The lists of high and of low times, MaxEvents events in all at most
TimeListPairs ==
    UNION {[1..p[1] -> EventTimes] \X [1..p[2] -> EventTimes] :
              p \in {q \in (0..MaxEvents) \X (0..MaxEvents) :
                         q[1] + q[2] <= MaxEvents}}

HighEvents(times) == [i \in 1..Len(times) |-> [time |-> times[i], height_cm |-> 180]]
LowEvents(times) == [i \in 1..Len(times) |-> [time |-> times[i], height_cm |-> 20]]

D0305 == <<"2", "0", "2", "4", "-", "0", "3", "-", "0", "5">>
D0306 == <<"2", "0", "2", "4", "-", "0", "3", "-", "0", "6">>

Todays ==
    [weather : [code : {Undefined, Str(""), Str("100")},
                text_ja : {Undefined, Str("fine")}],
     wind_text : {Undefined, Str("north 3m/s")},
     wave_text : {Undefined, Str("1m")},
     pop : {<< >>,
            <<[time |-> Str("00-06"), value |-> Undefined]>>,
            <<[time |-> Str("00-06"), value |-> Undefined],
              [time |-> Str("06-12"), value |-> Num(0)]>>}]

WeeklyEntries ==
    {[date |-> D0305, weather |-> [code |-> Str("200"), text_ja |-> Str("cloudy")],
      pop |-> Num(30), temp_min |-> Num(8), temp_max |-> Num(15)],
     [date |-> D0306, weather |-> [code |-> Str("300"), text_ja |-> Undefined],
      pop |-> Undefined, temp_min |-> Undefined, temp_max |-> Num(12)]}

Weeklies == UNION {[1..k -> WeeklyEntries] : k \in 0..MaxWeekly}

DefaultTide ==
    [hourly_cm |-> [i \in 1..24 |-> Num(BaseHourly[i])],
     high |-> HighEvents(<<T0630>>),
     low |-> LowEvents(<<T0300>>)]

DefaultToday ==
    [weather |-> [code |-> Str("100"), text_ja |-> Str("fine")],
     wind_text |-> Str("north 3m/s"),
     wave_text |-> Str("1m"),
     pop |-> << >>]

StationD1 == [station_code |-> <<"D", "1">>, name |-> Str("port D1")]

\* A forecast that varies in its tide block
TideForecast(hourly, highTimes, lowTimes) ==
    [station |-> StationD1, date |-> D0305,
     tide |-> [hourly_cm |-> hourly,
               high |-> HighEvents(highTimes),
               low |-> LowEvents(lowTimes)],
     today |-> DefaultToday, weekly |-> << >>]

\* A forecast that varies in its weather blocks
WeatherForecast(d, today, weekly) ==
    [station |-> StationD1, date |-> d, tide |-> DefaultTide,
     today |-> today, weekly |-> weekly]

InitView ==
    /\ clock = Clock2024
    /\ \/ forecast = Null
       \/ \E hourly \in Hourlies, p \in TimeListPairs :
             forecast = TideForecast(hourly, p[1], p[2])
       \/ \E d \in {D0305, D0306}, today \in Todays, weekly \in Weeklies :
             forecast = WeatherForecast(d, today, weekly)
    /\ view = NotCalled
    /\ IdleDate /\ IdleTime /\ IdleApp

\* React renders the component with the forecast it holds
Render ==
    /\ view = NotCalled
    /\ view' = Rendered(forecast)
    /\ UNCHANGED <<clock, forecast, dateVars, timeVars, appVars>>

NextView == Render

SpecView == InitView /\ [][NextView]_vars

-----------------------------------------------------------------------------
(* The pages as state machines.  variant "forecast" is App.tsx (the        *)
(* dashboard), variant "tides" is part_001 (the tide page), variant        *)
(* "tidesOnLoad" is part_002 (the tide page that fetches on mount).  A     *)
(* request sent with fetch stays in inflight until its response arrives;   *)
(* what follows the await (the setters and the finally block) is one step. *)
(* url is the query of the latest call that reached fetch.                 *)

\* The messages set with setError
ErrSelectStationAndDate == Str("select station and date")
ErrStationCodeEmpty == Str("station_code is empty")
ErrDateEmpty == Str("date is empty")
ErrStationsLoad == Str("Stations load error")
ErrHttp == Str("HTTP error status")
ErrFetch == Str("Failed to fetch")

CodeD1 == <<"D", "1">>
CodeA2 == <<"A", "2">>

\* The body of a successful /api/v1/stations response
StationList ==
    [list |-> <<[station_code |-> CodeD1, name |-> Str("port D1")],
                [station_code |-> CodeA2, name |-> Str("port A2")]>>]

\* The body of a successful /api/v1/fishing-forecast response
ForecastResponse(st, dt) ==
    [station |-> [station_code |-> st, name |-> Str("port")],
     date |-> dt, tide |-> DefaultTide, today |-> DefaultToday, weekly |-> << >>]

\* The body of a successful /api/v1/tides response
TideResponse(st, dt) ==
    [station_code |-> st, date |-> dt,
     hourly |-> DefaultTide.hourly_cm,
     highTides |-> <<[time |-> T0630, heightCm |-> 180]>>,
     lowTides |-> <<[time |-> T0300, heightCm |-> 20]>>]

\* How a request may end: a 2xx response with JSON, another status, or a
\* rejected fetch
Outcomes == {"ok", "status", "rejected"}

\* The query string of the tide page; "" is a parameter that is missing or
\* empty, which the mount effect treats alike
NoQuery == [station_code |-> << >>, date |-> << >>]

UrlQueries ==
    {NoQuery,
     [station_code |-> <<" ", "d", "1">>, date |-> <<"2", "0", "2", "4", "/", "3", "/", "5">>],
     [station_code |-> << >>, date |-> <<" ">>]}

\* The query strings of part_002; missing holds the parameters for which
\* URLSearchParams.get answers null (an empty parameter is not missing)
OnLoadQueries ==
    {[station_code |-> << >>, date |-> << >>,
      missing |-> {"station_code", "date"}],
     [station_code |-> <<"a", "2">>, date |-> << >>, missing |-> {"date"}],
     [station_code |-> << >>, date |-> D0305, missing |-> {}]}

\* What the user may type into the station_code field of the tide page
TypedStationCodes == {<< >>, <<"d", "1">>, <<" ", "D", "1", " ">>, <<" ", " ">>}

\* What a date input may report
PickedDates == {<< >>, D0305, D0306}

Init ==
    /\ clock \in Clocks
    /\ variant \in {"forecast", "tides", "tidesOnLoad"}
    /\ urlQuery \in CASE variant = "tides" -> UrlQueries
                      [] variant = "tidesOnLoad" -> OnLoadQueries
                      [] OTHER -> {NoQuery}
    /\ mounted = FALSE
    /\ stations = Null
    /\ stationCode = << >>
    /\ date = << >>
    /\ forecast = Null
    /\ data = Null
    /\ error = Null
    /\ loading = FALSE
    /\ inflight = {}
    /\ url = Null
    /\ effect = "none"
    /\ view = NotCalled
    /\ IdleDate /\ IdleTime

\* An event handler that sets state asks for a re-render, and a pending
\* mount effect is flushed before it
afterEvent == IF effect = "pending" THEN "due" ELSE effect

\* App.tsx: the first render; its mount effect is left for a later task
RenderForecast ==
    /\ variant = "forecast" /\ ~mounted
    /\ mounted' = TRUE
    /\ effect' = "pending"
    /\ UNCHANGED <<clock, dateVars, timeVars, forecast, viewVars, variant,
                   stations, stationCode, date, data, error, loading,
                   inflight, urlQuery, url>>

\* App.tsx: the effect that runs on mount starts fetchStations, in its own
\* task or before the re-render that an event asked for
MountForecast ==
    /\ variant = "forecast" /\ effect \in {"pending", "due"}
    /\ effect' = "none"
    /\ inflight' = inflight \cup {[kind |-> "stations"]}
    /\ UNCHANGED <<clock, dateVars, timeVars, forecast, viewVars, variant,
                   mounted, stations, stationCode, date, data, error,
                   loading, urlQuery, url>>

\* App.tsx: fetchStations after its await
StationsArrive(outcome) ==
    /\ variant = "forecast"
    /\ [kind |-> "stations"] \in inflight
    /\ inflight' = inflight \ {[kind |-> "stations"]}
    /\ IF outcome = "ok"
       THEN stations' = StationList /\ UNCHANGED error
       ELSE error' = ErrStationsLoad /\ UNCHANGED stations
    /\ UNCHANGED <<clock, dateVars, timeVars, forecast, viewVars, variant,
                   mounted, stationCode, date, data, loading, urlQuery, url,
                   effect>>

\* App.tsx: onChange of the select, disabled until the stations are loaded
SelectStation(code) ==
    /\ variant = "forecast" /\ mounted /\ effect # "due"
    /\ effect' = afterEvent
    /\ stations # Null
    /\ \/ code = << >>
       \/ \E i \in 1..Len(stations.list) : stations.list[i].station_code = code
    /\ stationCode' = code
    /\ UNCHANGED <<clock, dateVars, timeVars, forecast, viewVars, variant,
                   mounted, stations, date, data, error, loading, inflight,
                   urlQuery, url>>

\* App.tsx: onChange of the date input
PickDate(value) ==
    /\ variant = "forecast" /\ mounted /\ effect # "due"
    /\ effect' = afterEvent
    /\ date' = value
    /\ UNCHANGED <<clock, dateVars, timeVars, forecast, viewVars, variant,
                   mounted, stations, stationCode, data, error, loading,
                   inflight, urlQuery, url>>

\* A fetchForecast that leaves the previous forecast in place
fetchForecast_KeepsForecast(st, dt) ==
    IF st = << >> \/ dt = << >>
    THEN /\ error' = ErrSelectStationAndDate
         /\ UNCHANGED <<loading, forecast, inflight, url>>
    ELSE /\ loading' = TRUE
         /\ error' = Null
         /\ UNCHANGED forecast
         /\ inflight' = inflight \cup {[kind |-> "forecast", st |-> st, dt |-> dt]}
         /\ url' = [kind |-> "forecast", st |-> st, dt |-> dt]

\* A fetchForecast that leaves the previous error in place
fetchForecast_KeepsError(st, dt) ==
    IF st = << >> \/ dt = << >>
    THEN /\ error' = ErrSelectStationAndDate
         /\ UNCHANGED <<loading, forecast, inflight, url>>
    ELSE /\ loading' = TRUE
         /\ UNCHANGED error
         /\ forecast' = Null
         /\ inflight' = inflight \cup {[kind |-> "forecast", st |-> st, dt |-> dt]}
         /\ url' = [kind |-> "forecast", st |-> st, dt |-> dt]

\* App.tsx: fetchForecast up to its await
fetchForecast(st, dt) ==
    IF st = << >> \/ dt = << >>
    THEN /\ error' = ErrSelectStationAndDate
         /\ UNCHANGED <<loading, forecast, inflight, url>>
    ELSE /\ loading' = TRUE
         /\ error' = Null
         /\ forecast' = Null
         /\ inflight' = inflight \cup {[kind |-> "forecast", st |-> st, dt |-> dt]}
         /\ url' = [kind |-> "forecast", st |-> st, dt |-> dt]

\* App.tsx: onSubmit of the form; the submit button is disabled while loading
SubmitForecast ==
    /\ variant = "forecast" /\ mounted /\ effect # "due"
    /\ effect' = afterEvent
    /\ ~loading
    /\ fetchForecast(stationCode, date)
    /\ UNCHANGED <<clock, dateVars, timeVars, viewVars, variant, mounted,
                   stations, stationCode, date, data, urlQuery>>

\* App.tsx: fetchForecast after its await, with the finally block
ForecastArrives(req, outcome) ==
    /\ variant = "forecast"
    /\ req \in inflight /\ req.kind = "forecast"
    /\ inflight' = inflight \ {req}
    /\ CASE outcome = "ok" ->
              forecast' = ForecastResponse(req.st, req.dt) /\ UNCHANGED error
         [] outcome = "status" -> error' = ErrHttp /\ UNCHANGED forecast
         [] OTHER -> error' = ErrFetch /\ UNCHANGED forecast
    /\ loading' = FALSE
    /\ UNCHANGED <<clock, dateVars, timeVars, viewVars, variant, mounted,
                   stations, stationCode, date, data, urlQuery, url, effect>>

\* part_001: the first render; its mount effect is left for a later task
RenderTides ==
    /\ variant = "tides" /\ ~mounted
    /\ mounted' = TRUE
    /\ effect' = "pending"
    /\ UNCHANGED <<clock, dateVars, timeVars, forecast, viewVars, variant,
                   stations, stationCode, date, data, error, loading,
                   inflight, urlQuery, url>>

\* part_001: the effect that runs on mount reads the query string, in its
\* own task or before the re-render that an event asked for
MountTides ==
    /\ variant = "tides" /\ effect \in {"pending", "due"}
    /\ effect' = "none"
    /\ LET st == urlQuery.station_code
           dt == urlQuery.date
       IN  /\ stationCode' = IF st # << >> THEN ToUpperCase(Trim(st)) ELSE stationCode
           /\ date' = IF dt # << >> THEN normalizeDate(dt) ELSE date
           /\ urlQuery' = IF st # << >> \/ dt # << >> THEN NoQuery ELSE urlQuery
    /\ UNCHANGED <<clock, dateVars, timeVars, forecast, viewVars, variant,
                   mounted, stations, data, error, loading, inflight, url>>

\* part_001: onChange of the station_code field
TypeStationCode(value) ==
    /\ variant = "tides" /\ mounted /\ effect # "due"
    /\ effect' = afterEvent
    /\ stationCode' = value
    /\ UNCHANGED <<clock, dateVars, timeVars, forecast, viewVars, variant,
                   mounted, stations, date, data, error, loading, inflight,
                   urlQuery, url>>

\* part_001: onChange of the date input
PickDateTides(value) ==
    /\ variant = "tides" /\ mounted /\ effect # "due"
    /\ effect' = afterEvent
    /\ date' = normalizeDate(value)
    /\ UNCHANGED <<clock, dateVars, timeVars, forecast, viewVars, variant,
                   mounted, stations, stationCode, data, error, loading,
                   inflight, urlQuery, url>>

\* part_001: fetchTides up to its await
fetchTides(stRaw, dtRaw) ==
    LET st == ToUpperCase(Trim(stRaw))
        dt == normalizeDate(dtRaw)
    IN  IF st = << >>
        THEN error' = ErrStationCodeEmpty /\ UNCHANGED <<loading, data, inflight, url>>
        ELSE IF dt = << >>
             THEN error' = ErrDateEmpty /\ UNCHANGED <<loading, data, inflight, url>>
             ELSE /\ loading' = TRUE
                  /\ error' = Null
                  /\ data' = Null
                  /\ inflight' =
                        inflight \cup {[kind |-> "tides", st |-> st, dt |-> dt]}
                  /\ url' = [kind |-> "tides", st |-> st, dt |-> dt]

\* part_001: onSubmit of the form; the submit button is disabled while loading
SubmitTides ==
    /\ variant = "tides" /\ mounted /\ effect # "due"
    /\ effect' = afterEvent
    /\ ~loading
    /\ fetchTides(stationCode, date)
    /\ UNCHANGED <<clock, dateVars, timeVars, forecast, viewVars, variant,
                   mounted, stations, stationCode, date, urlQuery>>

\* part_001: fetchTides after its await, with the finally block
TidesArrive(req, outcome) ==
    /\ variant = "tides"
    /\ req \in inflight /\ req.kind = "tides"
    /\ inflight' = inflight \ {req}
    /\ CASE outcome = "ok" ->
              /\ data' = TideResponse(req.st, req.dt)
              /\ urlQuery' = [station_code |-> req.st, date |-> req.dt]
              /\ UNCHANGED error
         [] outcome = "status" -> error' = ErrHttp /\ UNCHANGED <<data, urlQuery>>
         [] OTHER -> error' = ErrFetch /\ UNCHANGED <<data, urlQuery>>
    /\ loading' = FALSE
    /\ UNCHANGED <<clock, dateVars, timeVars, forecast, viewVars, variant,
                   mounted, stations, stationCode, date, url, effect>>

\* part_002: params.get("station_code") ?? "D1"
initialStation ==
    IF "station_code" \in urlQuery.missing THEN CodeD1 ELSE urlQuery.station_code

\* part_002: params.get("date") ?? todayJst()
initialDate ==
    IF "date" \in urlQuery.missing THEN todayJst ELSE urlQuery.date

\* part_002: each call of fetch is a request of its own, also when another
\* one with the same station and date is in flight
requestId ==
    CHOOSE n \in 0..Cardinality(inflight) : \A req \in inflight : req.id # n

\* part_002: fetchTides up to its await; nothing is validated
fetchTidesPart002(st, dt) ==
    LET req == [kind |-> "tides", st |-> st, dt |-> dt, id |-> requestId]
    IN  /\ loading' = TRUE
        /\ error' = Null
        /\ data' = Null
        /\ inflight' = inflight \cup {req}
        /\ url' = req

\* part_002: the first render takes station and date from the query string;
\* its mount effect is left for a later task
RenderPart002 ==
    /\ variant = "tidesOnLoad" /\ ~mounted
    /\ mounted' = TRUE
    /\ stationCode' = initialStation
    /\ date' = initialDate
    /\ effect' = "pending"
    /\ UNCHANGED <<clock, dateVars, timeVars, forecast, viewVars, variant,
                   stations, data, error, loading, inflight, urlQuery, url>>

\* part_002: the effect that runs on mount fetches the initial station and
\* date, in its own task or before the re-render that an event asked for
MountPart002 ==
    /\ variant = "tidesOnLoad" /\ effect \in {"pending", "due"}
    /\ fetchTidesPart002(initialStation, initialDate)
    /\ effect' = "none"
    /\ UNCHANGED <<clock, dateVars, timeVars, forecast, viewVars, variant,
                   mounted, stations, stationCode, date, urlQuery>>

\* part_002: onChange of the station_code field
TypeStationCodePart002(value) ==
    /\ variant = "tidesOnLoad" /\ mounted /\ effect # "due"
    /\ stationCode' = value
    /\ effect' = afterEvent
    /\ UNCHANGED <<clock, dateVars, timeVars, forecast, viewVars, variant,
                   mounted, stations, date, data, error, loading, inflight,
                   urlQuery, url>>

\* part_002: onChange of the date input
PickDatePart002(value) ==
    /\ variant = "tidesOnLoad" /\ mounted /\ effect # "due"
    /\ date' = value
    /\ effect' = afterEvent
    /\ UNCHANGED <<clock, dateVars, timeVars, forecast, viewVars, variant,
                   mounted, stations, stationCode, data, error, loading,
                   inflight, urlQuery, url>>

\* part_002: onSubmit of the form; the submit button is disabled while loading
SubmitPart002 ==
    /\ variant = "tidesOnLoad" /\ mounted /\ effect # "due"
    /\ ~loading
    /\ fetchTidesPart002(ToUpperCase(Trim(stationCode)), date)
    /\ effect' = afterEvent
    /\ UNCHANGED <<clock, dateVars, timeVars, forecast, viewVars, variant,
                   mounted, stations, stationCode, date, urlQuery>>

\* part_002: fetchTides after its await, with the finally block
TidesArrivePart002(req, outcome) ==
    /\ variant = "tidesOnLoad" /\ effect # "due"
    /\ req \in inflight /\ req.kind = "tides"
    /\ inflight' = inflight \ {req}
    /\ CASE outcome = "ok" ->
              /\ data' = TideResponse(req.st, req.dt)
              /\ urlQuery' = [station_code |-> req.st, date |-> req.dt,
                              missing |-> {}]
              /\ UNCHANGED error
         [] outcome = "status" -> error' = ErrHttp /\ UNCHANGED <<data, urlQuery>>
         [] OTHER -> error' = ErrFetch /\ UNCHANGED <<data, urlQuery>>
    /\ loading' = FALSE
    /\ UNCHANGED <<clock, dateVars, timeVars, forecast, viewVars, variant,
                   mounted, stations, stationCode, date, url, effect>>

\* The user reloads the page: the component state starts over, the requests
\* of the old document are gone, the address bar keeps its query string
Reload ==
    /\ mounted /\ effect # "due"
    /\ mounted' = FALSE
    /\ stations' = Null
    /\ stationCode' = << >>
    /\ date' = << >>
    /\ forecast' = Null
    /\ data' = Null
    /\ error' = Null
    /\ loading' = FALSE
    /\ inflight' = {}
    /\ url' = Null
    /\ effect' = "none"
    /\ UNCHANGED <<clock, dateVars, timeVars, viewVars, variant, urlQuery>>

Next ==
    \/ RenderForecast
    \/ MountForecast
    \/ \E outcome \in Outcomes : StationsArrive(outcome)
    \/ \E code \in {<< >>, CodeD1, CodeA2} : SelectStation(code)
    \/ \E value \in PickedDates : PickDate(value)
    \/ SubmitForecast
    \/ \E req \in inflight, outcome \in Outcomes : ForecastArrives(req, outcome)
    \/ RenderTides
    \/ MountTides
    \/ \E value \in TypedStationCodes : TypeStationCode(value)
    \/ \E value \in PickedDates : PickDateTides(value)
    \/ SubmitTides
    \/ \E req \in inflight, outcome \in Outcomes : TidesArrive(req, outcome)
    \/ RenderPart002
    \/ MountPart002
    \/ \E value \in TypedStationCodes : TypeStationCodePart002(value)
    \/ \E value \in PickedDates : PickDatePart002(value)
    \/ SubmitPart002
    \/ \E req \in inflight, outcome \in Outcomes :
          TidesArrivePart002(req, outcome)
    \/ Reload

Spec == Init /\ [][Next]_vars

-----------------------------------------------------------------------------
(* Properties of normalizeDate, checked under SpecDate *)

\* The shape YYYY<sep>M[M]<sep>D[D], stated position by position: lm and ld
\* are the lengths of the month and of the day
ShapedAs(s, lm, ld) ==
    /\ Len(s) = 6 + lm + ld
    /\ \A i \in 1..Len(s) :
          IF i \in {5, 6 + lm} THEN s[i] \in {"-", "/", "."} ELSE s[i] \in Digits

DateShaped(s) == \E lm \in 1..2, ld \in 1..2 : ShapedAs(s, lm, ld)

\* The value of a string of one or two digits
SmallValue(ds) ==
    IF Len(ds) = 1 THEN DigitVal(ds[1]) ELSE 10 * DigitVal(ds[1]) + DigitVal(ds[2])

TwoDigits(n) == <<DigitChars[(n \div 10) + 1], DigitChars[(n % 10) + 1]>>

\* Year, padded month, padded day joined with '-'
Canonical(s) ==
    LET lm == CHOOSE l \in 1..2 : \E ld \in 1..2 : ShapedAs(s, l, ld)
        month == SmallValue(SubSeq(s, 6, 5 + lm))
        day == SmallValue(SubSeq(s, 7 + lm, Len(s)))
    IN  SubSeq(s, 1, 4) \o <<"-">> \o TwoDigits(month) \o <<"-">> \o TwoDigits(day)

IsCanonical(s) ==
    ShapedAs(s, 2, 2) /\ s[5] = "-" /\ s[8] = "-"

\* C1: an input whose trimmed form is YYYY<sep>M[M]<sep>D[D] comes back as the
\* year, the month and the day as two-digit numbers, joined with '-',
\* whatever the separators and the range of month and day; a canonical
\* YYYY-MM-DD string comes back unchanged.
C1_Normalizes ==
    (output # NotCalled /\ DateShaped(Trim(input))) =>
        /\ output.value = Canonical(Trim(input))
        /\ IsCanonical(input) => output.value = input

\* C1 witness: "2024/13.5" with white space around it became "2024-13-05"
C1_Witness ==
    /\ output # NotCalled
    /\ Trim(input) = <<"2", "0", "2", "4", "/", "1", "3", ".", "5">>
    /\ input # Trim(input)
    /\ output.value = <<"2", "0", "2", "4", "-", "1", "3", "-", "0", "5">>

\* C2 as claimed: every non-empty input that is not date-shaped comes back
\* unchanged, character for character.
C2_Verbatim ==
    (output # NotCalled /\ input # << >> /\ ~DateShaped(Trim(input))) =>
        output.value = input

\* C2 amended: an input whose trimmed form is non-empty and not date-shaped
\* comes back as its trimmed form (so unchanged when it carries no white
\* space at its ends).
C2_PassThroughTrimmed ==
    (output # NotCalled /\ Trim(input) # << >> /\ ~DateShaped(Trim(input))) =>
        /\ output.value = Trim(input)
        /\ input = Trim(input) => output.value = input

\* C2 witness: "not-a-date" with white space around it came back trimmed
C2_Witness ==
    /\ output # NotCalled
    /\ Trim(input) = <<"n", "o", "t", "-", "a", "-", "d", "a", "t", "e">>
    /\ input # Trim(input)
    /\ output.value = Trim(input)

-----------------------------------------------------------------------------
(* Properties of toHourFraction, checked under SpecTime *)

\* C7 as claimed: the hour fraction of every time string lies in [0, 23].
C7_Within0To23 ==
    hourFraction # NotCalled =>
        /\ ~RatLess(hourFraction.value, Num(0))
        /\ ~RatLess(Num(23), hourFraction.value)

\* C7 amended: the hour fraction of every time string lies in
\* [0, 23 + 59/60]: the hour is clamped to [0, 23] and up to 59 minutes are
\* added to it.
C7_Within0To23h59 ==
    hourFraction # NotCalled =>
        /\ ~RatLess(hourFraction.value, Num(0))
        /\ ~RatLess([num |-> 23 * 60 + 59, den |-> 60], hourFraction.value)

\* C7 witness: "99:99" was clamped to 23 hours 59 minutes
C7_Witness ==
    /\ hourFraction # NotCalled
    /\ time = <<"9", "9", ":", "9", "9">>
    /\ RatEq(hourFraction.value, [num |-> 23 * 60 + 59, den |-> 60])

-----------------------------------------------------------------------------
(* Properties of a render, checked under SpecView *)

Absent(v) == v = Null \/ v = Undefined

\* The height the interpolation rule gives at fractional hour f, Null for
\* nothing
RuleHeight(hourly, f) ==
    LET base == Floor(f)
        next == IF base + 1 > 23 THEN 23 ELSE base + 1
        atBase == Sample(hourly, base)
        atNext == Sample(hourly, next)
    IN  CASE Absent(atBase) -> Null
          [] ~Absent(atBase) /\ base = 23 -> atBase
          [] ~Absent(atBase) /\ base # 23 /\ Absent(atNext) -> atBase
          [] OTHER ->
                [num |-> atBase.num * f.den
                           + (atNext.num - atBase.num) * (f.num - base * f.den),
                 den |-> f.den]

RuleHeights(hourly, events) ==
    FilterBoolean([i \in 1..Len(events) |->
                      RuleHeight(hourly, toHourFraction(events[i].time))])

SameHeights(found, expected) ==
    /\ Len(found) = Len(expected)
    /\ \A i \in 1..Len(found) : RatEq(found[i].height, expected[i])

\* C4: the marker heights are, event by event, nothing when the base sample
\* is absent, the base sample when the base hour is 23 or the next sample is
\* absent, and otherwise base + (next - base) * (f - base).
C4_Interpolation ==
    (view # NotCalled /\ forecast # Null) =>
        /\ SameHeights(view.highMarkers,
                       RuleHeights(forecast.tide.hourly_cm, forecast.tide.high))
        /\ SameHeights(view.lowMarkers,
                       RuleHeights(forecast.tide.hourly_cm, forecast.tide.low))

\* C4 witness: a high tide at 06:30 between 120 cm and 160 cm is marked at
\* 140 cm, and one at 23:45 at the sample of hour 23
C4_Witness ==
    /\ view # NotCalled /\ forecast # Null
    /\ forecast.tide.hourly_cm[7] = Num(120) /\ forecast.tide.hourly_cm[8] = Num(160)
    /\ Len(forecast.tide.hourly_cm) = 24 /\ forecast.tide.hourly_cm[24] = Num(70)
    /\ forecast.tide.high = HighEvents(<<T0630, T2345>>)
    /\ Len(view.highMarkers) = 2
    /\ RatEq(view.highMarkers[1].height, Num(140))
    /\ RatEq(view.highMarkers[2].height, Num(70))

\* The events as the table tags them, highs first
TaggedEvents(fc) ==
    [i \in 1..Len(fc.tide.high) |->
        [type |-> "high", time |-> fc.tide.high[i].time,
         height |-> fc.tide.high[i].height_cm]]
    \o [i \in 1..Len(fc.tide.low) |->
        [type |-> "low", time |-> fc.tide.low[i].time,
         height |-> fc.tide.low[i].height_cm]]

WithMinutesOf(events, e) ==
    SelectSeq(events, LAMBDA o : RatEq(toMinutes(o.time), toMinutes(e.time)))

\* C5: the merged event list holds the highs and the lows, ascending by
\* hour*60+minute, and the events of equal minutes stand in their input
\* order (highs first).
C5_SortedStable ==
    (view # NotCalled /\ forecast # Null) =>
        LET in == TaggedEvents(forecast)
            out == view.tideEvents
        IN  /\ Len(out) = Len(in)
            /\ \A i, j \in 1..Len(out) :
                  i < j => ~RatLess(toMinutes(out[j].time), toMinutes(out[i].time))
            /\ \A i \in 1..Len(in) :
                  WithMinutesOf(out, in[i]) = WithMinutesOf(in, in[i])

\* C5 witness: a high at 09:00 and lows at 09:00 and 03:00 are listed as the
\* low at 03:00, the high at 09:00, the low at 09:00
C5_Witness ==
    /\ view # NotCalled /\ forecast # Null
    /\ forecast.tide.high = HighEvents(<<T0900>>)
    /\ forecast.tide.low = LowEvents(<<T0900, T0300>>)
    /\ view.tideEvents =
          <<[type |-> "low", time |-> T0300, height |-> 20],
            [type |-> "high", time |-> T0900, height |-> 180],
            [type |-> "low", time |-> T0900, height |-> 20]>>

BaseHour(e) == Floor(toHourFraction(e.time))

BasePresent(hourly, events) ==
    SelectSeq(events, LAMBDA e : ~Absent(Sample(hourly, BaseHour(e))))

MarkersMatch(found, hourly, events) ==
    LET kept == BasePresent(hourly, events)
    IN  /\ Len(found) = Len(kept)
        /\ \A i \in 1..Len(found) :
              /\ RatEq(found[i].x, toHourFraction(kept[i].time))
              /\ ~Absent(Sample(hourly, Floor(found[i].x)))

\* C6: each marker list has one marker for every event of its kind whose
\* base-hour sample is present, in the events' order, and none for an event
\* whose base-hour sample is absent.
C6_MarkerIffBasePresent ==
    (view # NotCalled /\ forecast # Null) =>
        /\ MarkersMatch(view.highMarkers, forecast.tide.hourly_cm, forecast.tide.high)
        /\ MarkersMatch(view.lowMarkers, forecast.tide.hourly_cm, forecast.tide.low)

\* C6 witness: with the sample of hour 6 absent and that of hour 7 present,
\* of the highs at 06:30 and 03:00 only the one at 03:00 is marked
C6_Witness ==
    /\ view # NotCalled /\ forecast # Null
    /\ forecast.tide.hourly_cm[7] = Null /\ forecast.tide.hourly_cm[8] # Null
    /\ forecast.tide.high = HighEvents(<<T0630, T0300>>)
    /\ Len(view.highMarkers) = 1
    /\ RatEq(view.highMarkers[1].x, Num(3))

\* C8: the series has the 24 points of the hours 0..23 in order; the point
\* of hour h carries the sample of hour h, or no height when it is null.
C8_DenseSeries ==
    (view # NotCalled /\ forecast # Null) =>
        /\ Len(view.chartData) = 24
        /\ \A i \in 1..24 :
              LET sample == Sample(forecast.tide.hourly_cm, i - 1)
              IN  /\ view.chartData[i].x = i - 1
                  /\ view.chartData[i].height =
                        (IF Absent(sample) THEN Undefined ELSE sample)

\* C8 witness: hour 6 is null; its point has no height and the points of
\* the hours 5 and 7 keep 100 and 160
C8_Witness ==
    /\ view # NotCalled /\ forecast # Null
    /\ forecast.tide.hourly_cm[7] = Null
    /\ view.chartData[7].height = Undefined
    /\ view.chartData[6].height = Num(100)
    /\ view.chartData[8].height = Num(160)

TodayCarriesData(fc) ==
    \/ ~Absent(fc.today.weather.code) /\ fc.today.weather.code # Str("")
    \/ ~Absent(fc.today.wind_text) /\ fc.today.wind_text # Str("")
    \/ ~Absent(fc.today.wave_text) /\ fc.today.wave_text # Str("")
    \/ \E i \in 1..Len(fc.today.pop) : fc.today.pop[i].value # Undefined

Shows(section, el) == \E i \in 1..Len(section) : section[i].el = el

\* C9 as claimed: the today detail when the today block carries data, else
\* the weekly summary when weekly data exist, else the no-forecast message;
\* so weather content or the message is always displayed.
C9_OneTierAlwaysShown ==
    (view # NotCalled /\ forecast # Null) =>
        /\ TodayCarriesData(forecast) <=> Shows(view.weather, "p-wind")
        /\ Shows(view.weather, "p-none") <=>
              (~TodayCarriesData(forecast) /\ forecast.weekly = << >>)
        /\ Shows(view.weather, "p-weather") \/ Shows(view.weather, "p-none")

-----------------------------------------------------------------------------
(* Properties of the pages, checked under Spec *)

\* C3 as claimed: a submission of the tide page with an empty (or blank) date
\* and a station code ends in the 'date is empty' error, no request sent.
C3_EmptyDateReachesError ==
    [][(SubmitTides /\ Trim(date) = << >> /\ Trim(stationCode) # << >>) =>
          (error' = ErrDateEmpty /\ inflight' = inflight)]_vars

QueryInFlight == \E req \in inflight : req.kind \in {"forecast", "tides"}

\* C10 as claimed: every submission, whatever the station and the date,
\* leaves no earlier forecast or tide data held.
C10_EverySubmitDiscards ==
    [][(SubmitForecast \/ SubmitTides) => (forecast' = Null /\ data' = Null)]_vars

\* C10 amended: on the dashboard (App.tsx) and the tide page of part_001
\* every submission that passes the validation and sends its request
\* discards the response held before: while the request of a query is in
\* flight, no forecast and no tide data is held.
C10_NoDataWhileQueryInFlight ==
    (variant \in {"forecast", "tides"} /\ QueryInFlight) =>
       (forecast = Null /\ data = Null)

\* C10 witness: on the tide page a response had arrived since the mount (the
\* address bar carries its query), and with the next request in flight no
\* data is held
C10_Witness ==
    /\ variant = "tides" /\ mounted
    /\ urlQuery # NoQuery
    /\ QueryInFlight /\ loading
    /\ data = Null

-----------------------------------------------------------------------------
(* C11 *)

\* The forecast and tide requests that are in flight
Queries == {req \in inflight : req.kind \in {"forecast", "tides"}}

\* C11 as stated: at most one forecast or tide request is in flight at any
\* time, the
\* form can be submitted exactly when none is, the request in flight is the
\* query submitted last, and a result on display is the answer to the query
\* submitted last; so every response that arrives, with a result or with an
\* error, answers the latest query and none overwrites a newer one.
C11_OnlyLatestQuery ==
    /\ Cardinality(Queries) <= 1
    /\ mounted => (loading <=> Queries # {})
    /\ \A req \in Queries : req = url
    /\ forecast # Null =>
          /\ url # Null
          /\ forecast.station.station_code = url.st /\ forecast.date = url.dt
    /\ data # Null =>
          /\ url # Null
          /\ data.station_code = url.st /\ data.date = url.dt

-----------------------------------------------------------------------------
(* C12 *)

\* The messages of a submission that the validation rejects
ValidationErrors == {ErrSelectStationAndDate, ErrStationCodeEmpty, ErrDateEmpty}

\* The pages C12 is about: the dashboard (App.tsx) and the tide page of
\* part_001
DashboardOrTidePage == variant \in {"forecast", "tides"}

\* On those pages a response arrives with a body / without one
Succeeds(req) ==
    \/ ForecastArrives(req, "ok")
    \/ TidesArrive(req, "ok")

Fails(req) ==
    \E outcome \in Outcomes \ {"ok"} :
       \/ ForecastArrives(req, outcome)
       \/ TidesArrive(req, outcome)

\* C12 as stated: on the dashboard and the tide page the result (forecast,
\* or data) and the error are never both non-null.
C12_NeverResultAndError ==
    DashboardOrTidePage => ~((forecast # Null \/ data # Null) /\ error # Null)

\* C12: on the dashboard and the tide page a fetch that succeeds ends with
\* the result set, error null and loading false; one that fails ends with
\* error set, the result null and loading false; and the result and the
\* error are both non-null only while the error is the message of a
\* rejected submission.
C12_FetchEndsWithOneOfThem ==
    [][/\ \A req \in inflight :
            /\ Succeeds(req) =>
                  /\ (forecast' # Null \/ data' # Null)
                  /\ error' = Null /\ loading' = FALSE
            /\ Fails(req) =>
                  /\ error' \in {ErrHttp, ErrFetch}
                  /\ forecast' = Null /\ data' = Null /\ loading' = FALSE
       /\ (/\ DashboardOrTidePage
           /\ (forecast' # Null \/ data' # Null) /\ error' # Null) =>
             error' \in ValidationErrors]_vars

\* A forecast is on display together with the message of a submission that
\* was rejected after it had arrived
C12_Witness ==
    /\ variant = "forecast" /\ mounted
    /\ forecast # Null /\ error = ErrSelectStationAndDate
    /\ ~loading /\ Queries = {}

=============================================================================
